---- MODULE Spec2Model ----
(***************************************************************************)
(* The rot-N example encryptor of examples/c/ex_encrypt.c: the registered  *)
(* template my_crypto_global, the instances rotate_customize allocates,    *)
(* and the five callbacks (customize, sizing, encrypt, decrypt, terminate) *)
(* the engine calls on them.                                               *)
(***************************************************************************)
EXTENDS Integers, Sequences, FiniteSets, TLC

\* ------------------------------------------------------------------ bounds
\* Longest plaintext handed to rotate_encrypt.
MaxLen == 2
\* A destination capacity differs from the required size by at most this.
MaxSlack == 1
\* Number of heap cells malloc/calloc can hand out before returning NULL.
MaxAddr == 3
\* Calls are made on an encryptor while its num_calls is below this.
MaxCalls == 3
\* Width of size_t in the model (64 on the build; the wrap-around of
\* src_len - CHKSUM_LEN - IV_LEN is the same at any width above the lengths).
SizeBits == 16
\* Period of the modelled random() generator.
RandPeriod == 2
\* Threads calling one instance concurrently.
MaxThreads == 2

\* ------------------------------------------------------- program constants
CHKSUM_LEN == 4
IV_LEN == 16
ENOMEM == 12
EPERM == 1
EINVAL == 22
WT_NOTFOUND == -31803
NULL == 0

SYS_KEYID == "system"
SYS_BADPW == "bad_password"
SYS_PW == "system_password"
USER1_KEYID == "user1"
USER2_KEYID == "user2"
USERBAD_KEYID == "userbad"

\* ------------------------------------------------------------- input sets
\* 'Z', 'a', '{': an upper-case letter that wraps when rotated forward, a
\* lower-case letter that wraps when rotated back, and a non-letter.
Bytes == {90, 97, 123}
\* What a caller's destination buffer holds before the call.
FillBytes == {0}
\* What a caller's *result_lenp holds before the call.
ResultInit == {0, 7}

Min(a, b) == IF a < b THEN a ELSE b

SeqsUpTo(S, n) == UNION {[1..k -> S] : k \in 0..n}

Plaintexts == SeqsUpTo(Bytes, MaxLen)

\* size_t arithmetic
SizeMod == 2^SizeBits
size_t(n) == n % SizeMod

\* ---------------------------------------------------------------- ctype.h
islower(c) == c >= 97 /\ c <= 122
isupper(c) == c >= 65 /\ c <= 90
isalpha(c) == islower(c) \/ isupper(c)

\* ------------------------------------------------------------- do_rotate
\* One byte of the loop body.
\* Faulty variant: the upper-case branch adds 'a' instead of 'A'.
RotateByteLowerBase(c, rotn) ==
    IF isalpha(c)
      THEN IF islower(c)
             THEN ((c - 97 + rotn) % 26) + 97
             ELSE ((c - 65 + rotn) % 26) + 97
      ELSE c

RotateByte(c, rotn) ==
    IF isalpha(c)
      THEN IF islower(c)
             THEN ((c - 97 + rotn) % 26) + 97
             ELSE ((c - 65 + rotn) % 26) + 65
      ELSE c

\* do_rotate(buf, len, rotn): the first len bytes of buf rotated in place.
do_rotate(buf, len, rotn) ==
    [i \in 1..Len(buf) |-> IF i <= len THEN RotateByte(buf[i], rotn) ELSE buf[i]]

\* ---------------------------------------------------------------- random
\* random() is a deterministic generator seeded by srandom(getpid()).
random_next(s) == (s + 1) % RandPeriod
random_byte(s) == (s * 131 + 7) % 256

\* The bytes n successive (uint8_t)random() calls store, from state s.
RECURSIVE random_bytes(_, _)
random_bytes(s, n) ==
    IF n = 0 THEN <<>> ELSE <<random_byte(s)>> \o random_bytes(random_next(s), n - 1)

RECURSIVE random_skip(_, _)
random_skip(s, n) == IF n = 0 THEN s ELSE random_skip(random_next(s), n - 1)

\* make_cksum / make_iv: the bytes written at dst[0..] and the generator after.
make_cksum(s) == [bytes |-> random_bytes(s, CHKSUM_LEN), rand |-> random_skip(s, CHKSUM_LEN)]
make_iv(s) == [bytes |-> random_bytes(s, IV_LEN), rand |-> random_skip(s, IV_LEN)]

\* --------------------------------------------------------------- string.h
strlen(s) == Len(s)
strcmp(a, b) == IF a = b THEN 0 ELSE 1
strncmp(a, b, n) ==
    IF SubSeq(a, 1, Min(n, Len(a))) = SubSeq(b, 1, Min(n, Len(b))) THEN 0 ELSE 1
\* strncpy(dst, src, n + 1); dst[n] = '\0': the C string left in dst.
strncpy_term(src, n) == SubSeq(src, 1, Min(n, Len(src)))

\* ITEM_MATCHES(config_item, s)
ITEM_MATCHES(config_item, s) ==
    strlen(s) = config_item.len /\ strncmp(config_item.str, s, config_item.len) = 0

\* ----------------------------------------------------------- configuration
\* The text that follows a value inside the configuration string: a
\* WT_CONFIG_ITEM points into that string and is not NUL-terminated.
ConfigTail == ")"

Absent == [present |-> FALSE, val |-> ""]
Given(v) == [present |-> TRUE, val |-> v]

Config(k, sk) == [keyid |-> k, secretkey |-> sk]

\* The configurations main() uses (system with the password, with a bad one
\* and with none, user1, user2, userbad), and those with an empty or a
\* missing keyid, an empty secret, a secret that only starts with the
\* password, and a secret nobody asked for.
Configs ==
    {Config(Given(SYS_KEYID), Given(SYS_PW)),
     Config(Given(SYS_KEYID), Given(SYS_BADPW)),
     Config(Given(SYS_KEYID), Given(SYS_PW \o "1")),
     Config(Given(SYS_KEYID), Given("")),
     Config(Given(SYS_KEYID), Absent),
     Config(Given(USER1_KEYID), Absent),
     Config(Given(USER1_KEYID), Given(SYS_PW)),
     Config(Given(USER2_KEYID), Absent),
     Config(Given(USERBAD_KEYID), Absent),
     Config(Given(USERBAD_KEYID), Given(SYS_PW)),
     Config(Given(""), Absent),
     Config(Given(""), Given(SYS_PW)),
     Config(Absent, Absent),
     Config(Absent, Given(SYS_PW))}

\* What an uninitialized WT_CONFIG_ITEM on rotate_customize's stack may hold.
IndeterminateItems ==
    {[str |-> "", len |-> 0],
     [str |-> SYS_KEYID \o ConfigTail, len |-> 6],
     [str |-> USER1_KEYID \o ConfigTail, len |-> 5]}

\* extapi->config_get(extapi, session, encrypt_config, key, &item): on
\* success the item is set; when the key is not found the item is left as
\* it was.
config_get(arg, item) ==
    IF arg.present
      THEN [ret |-> 0, item |-> [str |-> arg.val \o ConfigTail, len |-> Len(arg.val)]]
      ELSE [ret |-> WT_NOTFOUND, item |-> item]

\* ------------------------------------------------------------------ memory
Addr == 1..MaxAddr
\* &my_crypto_global: static storage, outside the heap.
GlobalAddr == MaxAddr + 1

FreeBlock == [kind |-> "free"]
StrBlock(s) == [kind |-> "str", val |-> s]
\* MY_CRYPTO (the WT_ENCRYPTOR member holds the five callbacks, which never
\* change after add_my_encryptors).
MY_CRYPTO(rot_N, num_calls, keyid, password) ==
    [kind |-> "crypto", rot_N |-> rot_N, num_calls |-> num_calls,
     keyid |-> keyid, password |-> password]

FreeAddrs(m) == {a \in Addr : m[a].kind = "free"}

\* malloc/calloc: a free cell, or NULL when the heap is exhausted.
malloc(m) ==
    IF FreeAddrs(m) = {}
      THEN NULL
      ELSE CHOOSE a \in FreeAddrs(m) : \A b \in FreeAddrs(m) : a <= b

\* free(a) on the running record st = [mem, freed, bad_free].
free(st, a) ==
    [mem |-> [st.mem EXCEPT ![a] = FreeBlock],
     freed |-> Append(st.freed, a),
     bad_free |-> st.bad_free \/ a \notin Addr \/ st.mem[a].kind = "free"]

\* -------------------------------------------------------- rotate_customize
\* Faulty variant: user1 and user2 take each other's rot_N.
KeyPolicySwapped(keyid, password, m) ==
    IF ITEM_MATCHES(keyid, "system")
      THEN IF password = NULL \/ strcmp(m[password].val, SYS_PW) # 0
             THEN [ret |-> EPERM, rot_N |-> 0]
             ELSE [ret |-> 0, rot_N |-> 13]
      ELSE IF ITEM_MATCHES(keyid, USER1_KEYID)
             THEN [ret |-> 0, rot_N |-> 19]
             ELSE IF ITEM_MATCHES(keyid, USER2_KEYID)
                    THEN [ret |-> 0, rot_N |-> 4]
                    ELSE [ret |-> EINVAL, rot_N |-> 0]

\* Faulty variant: the system keyid is accepted without a password.
KeyPolicyNoPassword(keyid, password, m) ==
    IF ITEM_MATCHES(keyid, "system")
      THEN IF password # NULL /\ strcmp(m[password].val, SYS_PW) # 0
             THEN [ret |-> EPERM, rot_N |-> 0]
             ELSE [ret |-> 0, rot_N |-> 13]
      ELSE IF ITEM_MATCHES(keyid, USER1_KEYID)
             THEN [ret |-> 0, rot_N |-> 4]
             ELSE IF ITEM_MATCHES(keyid, USER2_KEYID)
                    THEN [ret |-> 0, rot_N |-> 19]
                    ELSE [ret |-> EINVAL, rot_N |-> 0]

\* The key management step: which rot_N the keyid maps to, or the error.
\* password is my_crypto->password, a pointer into m.
KeyPolicy(keyid, password, m) ==
    IF ITEM_MATCHES(keyid, "system")
      THEN IF password = NULL \/ strcmp(m[password].val, SYS_PW) # 0
             THEN [ret |-> EPERM, rot_N |-> 0]
             ELSE [ret |-> 0, rot_N |-> 13]
      ELSE IF ITEM_MATCHES(keyid, USER1_KEYID)
             THEN [ret |-> 0, rot_N |-> 4]
             ELSE IF ITEM_MATCHES(keyid, USER2_KEYID)
                    THEN [ret |-> 0, rot_N |-> 19]
                    ELSE [ret |-> EINVAL, rot_N |-> 0]

\* What a rotate_customize call leaves behind: its return value, the memory,
\* the pointer stored through customp (custom_set says whether one was), the
\* cells it allocated and the cells it freed, in order.
CustomizeOut(ret, m, custom_set, custom, allocd, st) ==
    [ret |-> ret, mem |-> m, custom_set |-> custom_set, custom |-> custom,
     allocd |-> allocd, freed |-> st.freed, bad_free |-> st.bad_free]

NoFrees(m) == [mem |-> m, freed |-> <<>>, bad_free |-> FALSE]

\* The err: label: release the strings and the structure, return EPERM.
CustomizeErr(m, my_crypto, allocd) ==
    LET s0 == NoFrees(m)
        s1 == IF m[my_crypto].keyid # NULL THEN free(s0, m[my_crypto].keyid) ELSE s0
        s2 == IF m[my_crypto].password # NULL THEN free(s1, m[my_crypto].password) ELSE s1
        s3 == free(s2, my_crypto)
    IN  CustomizeOut(EPERM, s3.mem, FALSE, NULL, allocd, s3)

\* From the key management step to the return, the strings stashed.
CustomizeFinish(m, my_crypto, keyid, allocd) ==
    LET pol == KeyPolicy(keyid, m[my_crypto].password, m)
    IN  IF pol.ret = EPERM
          THEN CustomizeErr(m, my_crypto, allocd)
          ELSE IF pol.ret = EINVAL
                 THEN CustomizeOut(EINVAL, m, FALSE, NULL, allocd, NoFrees(m))
                 ELSE CustomizeOut(0,
                        [m EXCEPT ![my_crypto].rot_N = pol.rot_N,
                                  ![my_crypto].num_calls = @ + 1],
                        TRUE, my_crypto, allocd, NoFrees(m))

\* Stash the (optional) secret key, then finish.
CustomizeSecret(m, my_crypto, cfg, keyid, allocd) ==
    LET sget == config_get(cfg.secretkey, [str |-> "", len |-> 0])
        secret == sget.item
        stash == sget.ret = 0 /\ secret.len # 0
        p == malloc(m)
    IN  IF ~stash
          THEN CustomizeFinish(m, my_crypto, keyid, allocd)
          ELSE IF p = NULL
                 THEN CustomizeOut(ENOMEM, m, FALSE, NULL, allocd, NoFrees(m))
                 ELSE CustomizeFinish(
                        [m EXCEPT ![p] = StrBlock(strncpy_term(secret.str, secret.len)),
                                  ![my_crypto].password = p],
                        my_crypto, keyid, Append(allocd, p))

\* Stash the keyid, then the secret. keyid0 is what the keyid item held
\* before config_get.
CustomizeKeyid(m, my_crypto, cfg, keyid0, allocd) ==
    LET kget == config_get(cfg.keyid, keyid0)
        keyid == kget.item
        stash == kget.ret = 0 /\ keyid.len # 0
        p == malloc(m)
    IN  IF ~stash
          THEN CustomizeSecret(m, my_crypto, cfg, keyid, allocd)
          ELSE IF p = NULL
                 THEN CustomizeOut(ENOMEM, m, FALSE, NULL, allocd, NoFrees(m))
                 ELSE CustomizeSecret(
                        [m EXCEPT ![p] = StrBlock(strncpy_term(keyid.str, keyid.len)),
                                  ![my_crypto].keyid = p],
                        my_crypto, cfg, keyid, Append(allocd, p))

\* rotate_customize(encryptor, session, encrypt_config, customp) on memory m.
\* Faulty variant: the calloc'ed structure keeps its zero call count, the
\* template's is not copied.
rotate_customize_count_from_zero(m, encryptor, cfg, keyid0) ==
    LET my_crypto == malloc(m)
    IN  IF my_crypto = NULL
          THEN CustomizeOut(ENOMEM, m, FALSE, NULL, <<>>, NoFrees(m))
          ELSE CustomizeKeyid(
                 [m EXCEPT ![my_crypto] =
                    [m[encryptor] EXCEPT !.keyid = NULL, !.password = NULL,
                                         !.num_calls = 0]],
                 my_crypto, cfg, keyid0, <<my_crypto>>)

\* Faulty variant: the call is counted on the encryptor it is made on, as
\* the other callbacks do.
rotate_customize_counts_on_template(m, encryptor, cfg, keyid0) ==
    LET my_crypto == malloc(m)
    IN  IF my_crypto = NULL
          THEN CustomizeOut(ENOMEM, m, FALSE, NULL, <<>>, NoFrees(m))
          ELSE CustomizeKeyid(
                 [m EXCEPT ![my_crypto] =
                    [m[encryptor] EXCEPT !.keyid = NULL, !.password = NULL],
                           ![encryptor].num_calls = @ + 1],
                 my_crypto, cfg, keyid0, <<my_crypto>>)

rotate_customize(m, encryptor, cfg, keyid0) ==
    LET my_crypto == malloc(m)
    IN  IF my_crypto = NULL
          THEN CustomizeOut(ENOMEM, m, FALSE, NULL, <<>>, NoFrees(m))
          ELSE CustomizeKeyid(
                 [m EXCEPT ![my_crypto] =
                    [m[encryptor] EXCEPT !.keyid = NULL, !.password = NULL]],
                 my_crypto, cfg, keyid0, <<my_crypto>>)

\* ++my_crypto->num_calls
count_call(m, encryptor) == [m EXCEPT ![encryptor].num_calls = @ + 1]

\* --------------------------------------------------------- rotate_terminate
\* Faulty variant: the keyid is not released.
rotate_terminate_keeps_keyid(m, encryptor) ==
    LET m1 == count_call(m, encryptor)
        s0 == NoFrees(m1)
        s1 == IF m1[encryptor].password # NULL
                THEN [free(s0, m1[encryptor].password)
                        EXCEPT !.mem[encryptor].password = NULL]
                ELSE s0
    IN  IF encryptor # GlobalAddr THEN free(s1, encryptor) ELSE s1

\* Faulty variant: the encryptor is freed without the test for the template.
rotate_terminate_frees_template(m, encryptor) ==
    LET m1 == count_call(m, encryptor)
        s0 == NoFrees(m1)
        s1 == IF m1[encryptor].password # NULL
                THEN [free(s0, m1[encryptor].password)
                        EXCEPT !.mem[encryptor].password = NULL]
                ELSE s0
        s2 == IF m1[encryptor].keyid # NULL
                THEN [free(s1, m1[encryptor].keyid)
                        EXCEPT !.mem[encryptor].keyid = NULL]
                ELSE s1
    IN  free(s2, encryptor)

rotate_terminate(m, encryptor) ==
    LET m1 == count_call(m, encryptor)
        s0 == NoFrees(m1)
        s1 == IF m1[encryptor].password # NULL
                THEN [free(s0, m1[encryptor].password)
                        EXCEPT !.mem[encryptor].password = NULL]
                ELSE s0
        s2 == IF m1[encryptor].keyid # NULL
                THEN [free(s1, m1[encryptor].keyid)
                        EXCEPT !.mem[encryptor].keyid = NULL]
                ELSE s1
    IN  IF encryptor # GlobalAddr THEN free(s2, encryptor) ELSE s2

\* ------------------------------------------------------------ rotate_sizing
rotate_sizing(m, encryptor) ==
    [mem |-> count_call(m, encryptor),
     expansion_constant |-> CHKSUM_LEN + IV_LEN,
     ret |-> 0]

\* ----------------------------------------------------------------- buffers
\* memcpy(&dst[doff], &src[soff], n) on byte sequences (offsets from 0).
memcpy(dst, doff, src, soff, n) ==
    [i \in 1..Len(dst) |->
        IF i > doff /\ i <= doff + n THEN src[soff + i - doff] ELSE dst[i]]

\* do_rotate(&buf[off], len, rotn)
do_rotate_at(buf, off, len, rotn) ==
    SubSeq(buf, 1, off) \o do_rotate(SubSeq(buf, off + 1, Len(buf)), len, rotn)

\* What an encrypt or decrypt call leaves behind: the memory, the return
\* value, the destination buffer, the offsets of it that were stored to,
\* *result_lenp with whether it was stored to, and the generator.
CryptOut(m, ret, dst, written, result_len, result_set, rand) ==
    [mem |-> m, ret |-> ret, dst |-> dst, written |-> written,
     result_len |-> result_len, result_set |-> result_set, rand |-> rand]

\* ----------------------------------------------------------- rotate_encrypt
\* The capacity test of rotate_encrypt.
EncryptTooSmall(src_len, dst_len) ==
    dst_len < size_t(src_len + CHKSUM_LEN + IV_LEN)

\* rotate_encrypt after ++my_crypto->num_calls. src_null: src == NULL. dst
\* holds dst_len bytes, result_len is what *result_lenp held before the call.
\* Faulty variant: the rotation distance is chained on the state of the
\* generator the calls share.
encrypt_body_chained(m, encryptor, src_null, src, src_len, dst, dst_len, result_len, rand) ==
    LET i == CHKSUM_LEN + IV_LEN
        d1 == memcpy(dst, i, src, 0, src_len)
        d2 == do_rotate_at(d1, i, src_len, (m[encryptor].rot_N + rand) % 26)
        ck == make_cksum(rand)
        d3 == memcpy(d2, 0, ck.bytes, 0, CHKSUM_LEN)
        iv == make_iv(ck.rand)
        d4 == memcpy(d3, CHKSUM_LEN, iv.bytes, 0, IV_LEN)
    IN  IF src_null
          THEN CryptOut(m, 0, dst, {}, result_len, FALSE, rand)
          ELSE IF EncryptTooSmall(src_len, dst_len)
                 THEN CryptOut(m, ENOMEM, dst, {}, result_len, FALSE, rand)
                 ELSE CryptOut(m, 0, d4, 0..(i + src_len - 1), dst_len, TRUE, iv.rand)

encrypt_body(m, encryptor, src_null, src, src_len, dst, dst_len, result_len, rand) ==
    LET i == CHKSUM_LEN + IV_LEN
        d1 == memcpy(dst, i, src, 0, src_len)
        d2 == do_rotate_at(d1, i, src_len, m[encryptor].rot_N)
        ck == make_cksum(rand)
        d3 == memcpy(d2, 0, ck.bytes, 0, CHKSUM_LEN)
        iv == make_iv(ck.rand)
        d4 == memcpy(d3, CHKSUM_LEN, iv.bytes, 0, IV_LEN)
    IN  IF src_null
          THEN CryptOut(m, 0, dst, {}, result_len, FALSE, rand)
          ELSE IF EncryptTooSmall(src_len, dst_len)
                 THEN CryptOut(m, ENOMEM, dst, {}, result_len, FALSE, rand)
                 ELSE CryptOut(m, 0, d4, 0..(i + src_len - 1), dst_len, TRUE, iv.rand)

\* Faulty variant: the call is counted after the src == NULL return.
rotate_encrypt_counts_late(m, encryptor, src_null, src, src_len, dst, dst_len, result_len, rand) ==
    encrypt_body(IF src_null THEN m ELSE count_call(m, encryptor), encryptor,
                 src_null, src, src_len, dst, dst_len, result_len, rand)

rotate_encrypt(m, encryptor, src_null, src, src_len, dst, dst_len, result_len, rand) ==
    encrypt_body(count_call(m, encryptor), encryptor, src_null, src, src_len,
                 dst, dst_len, result_len, rand)

\* ----------------------------------------------------------- rotate_decrypt
\* Faulty variant: a destination one byte short passes.
DecryptTooSmallOffByOne(src_len, dst_len) ==
    dst_len + 1 < size_t(src_len - CHKSUM_LEN - IV_LEN)

\* The capacity test of rotate_decrypt.
DecryptTooSmall(src_len, dst_len) ==
    dst_len < size_t(src_len - CHKSUM_LEN - IV_LEN)

\* Faulty variant: decrypt rotates forward again.
DecryptRotnForward(rot_N) == rot_N

\* The rotation distance decrypt hands to do_rotate.
DecryptRotn(rot_N) == 26 - rot_N

\* The offsets of src that memcpy(&dst[0], &src[i], dst_len) reads in a
\* decrypt call that passed the capacity test.
DecryptReads(dst_len) ==
    (CHKSUM_LEN + IV_LEN)..(CHKSUM_LEN + IV_LEN + dst_len - 1)

\* Faulty variant: a record shorter than the header is taken as no data.
decrypt_body_short_is_empty(m, encryptor, src_null, src_mem, src_len, dst, dst_len, result_len, rand) ==
    LET i == CHKSUM_LEN + IV_LEN
        d1 == memcpy(dst, 0, src_mem, i, dst_len)
        d2 == do_rotate_at(d1, 0, dst_len, DecryptRotn(m[encryptor].rot_N))
    IN  IF src_null \/ src_len < i
          THEN CryptOut(m, 0, dst, {}, result_len, FALSE, rand)
          ELSE IF DecryptTooSmall(src_len, dst_len)
                 THEN CryptOut(m, ENOMEM, dst, {}, result_len, FALSE, rand)
                 ELSE CryptOut(m, 0, d2, 0..(dst_len - 1), dst_len, TRUE, rand)

\* rotate_decrypt after ++my_crypto->num_calls. src_mem is the record
\* followed by the bytes that lie behind it in memory.
decrypt_body(m, encryptor, src_null, src_mem, src_len, dst, dst_len, result_len, rand) ==
    LET i == CHKSUM_LEN + IV_LEN
        d1 == memcpy(dst, 0, src_mem, i, dst_len)
        d2 == do_rotate_at(d1, 0, dst_len, DecryptRotn(m[encryptor].rot_N))
    IN  IF src_null
          THEN CryptOut(m, 0, dst, {}, result_len, FALSE, rand)
          ELSE IF DecryptTooSmall(src_len, dst_len)
                 THEN CryptOut(m, ENOMEM, dst, {}, result_len, FALSE, rand)
                 ELSE CryptOut(m, 0, d2, 0..(dst_len - 1), dst_len, TRUE, rand)

\* Faulty variant: decrypt keeps the reverse distance in the instance.
rotate_decrypt_flips_rot_N(m, encryptor, src_null, src_mem, src_len, dst, dst_len, result_len, rand) ==
    LET out == decrypt_body(count_call(m, encryptor), encryptor, src_null, src_mem,
                            src_len, dst, dst_len, result_len, rand)
    IN  [out EXCEPT !.mem[encryptor].rot_N = DecryptRotn(@)]

rotate_decrypt(m, encryptor, src_null, src_mem, src_len, dst, dst_len, result_len, rand) ==
    decrypt_body(count_call(m, encryptor), encryptor, src_null, src_mem, src_len,
                 dst, dst_len, result_len, rand)

\* ------------------------------------------------------------------- state
VARIABLES
    mem,         \* the heap cells and my_crypto_global (at GlobalAddr)
    rand_state,  \* the state of random()
    call,        \* the last callback made: its arguments and what it left
    pc,          \* per thread: where its call on the shared instance stands
    reg,         \* per thread: the num_calls value it loaded
    tcall,       \* per thread: its call's arguments and results
    registered   \* a connection is open: the template is registered with it

vars == <<mem, rand_state, call, pc, reg, tcall, registered>>

my_crypto_global == mem[GlobalAddr]

Threads == 1..MaxThreads

\* The encryptors a call may be made on: the template and every instance
\* rotate_customize returned that has not been terminated.
IsCrypto(m, a) == m[a].kind = "crypto"
Encryptors == {a \in Addr \cup {GlobalAddr} : IsCrypto(mem, a)}
\* Structures that failed customize calls left allocated are not encryptors
\* the engine knows: no call is made on them.
Leaked(m) == {a \in Addr : IsCrypto(m, a) /\ m[a].rot_N = 0}
Instances == (Encryptors \ {GlobalAddr}) \ Leaked(mem)

NoConfig == [keyid |-> Absent, secretkey |-> Absent]

NoCall ==
    [op |-> "none", encryptor |-> NULL, ret |-> 0,
     before |-> MY_CRYPTO(0, 0, NULL, NULL),
     cfg |-> NoConfig, custom_set |-> FALSE, custom |-> NULL,
     allocd |-> <<>>, freed |-> <<>>, bad_free |-> FALSE,
     expansion_constant |-> 0,
     src_null |-> TRUE, src |-> <<>>, src_len |-> 0,
     dst_len |-> 0, dst |-> <<>>, written |-> {},
     result_len |-> 0, result_set |-> FALSE,
     has_plain |-> FALSE, plain |-> <<>>]

\* add_my_encryptors: the template registered, the heap empty.
TemplateMem ==
    [a \in Addr \cup {GlobalAddr} |->
        IF a = GlobalAddr THEN MY_CRYPTO(0, 0, NULL, NULL) ELSE FreeBlock]

NoThreadCall ==
    [op |-> "none", src |-> <<>>, dst_len |-> 0, ret |-> 0, dst |-> <<>>,
     result_len |-> 0]

Init ==
    /\ mem = TemplateMem
    /\ rand_state = 0
    /\ call = NoCall
    /\ pc = [t \in Threads |-> "idle"]
    /\ reg = [t \in Threads |-> 0]
    /\ tcall = [t \in Threads |-> NoThreadCall]
    /\ registered = TRUE

\* ----------------------------------------------------------------- actions
\* The engine makes one call at a time; `call` holds the arguments and the
\* results of the call that has just returned until the caller lets go of
\* them (its buffers are transient).
Returned == call.op = "none"

Return ==
    /\ call.op # "none"
    /\ call' = NoCall
    /\ UNCHANGED <<mem, rand_state, pc, reg, tcall, registered>>

Customize(encryptor, cfg, keyid0) ==
    /\ Returned
    /\ mem[encryptor].num_calls < MaxCalls
    /\ LET out == rotate_customize(mem, encryptor, cfg, keyid0)
       IN  /\ mem' = out.mem
           /\ call' = [NoCall EXCEPT
                         !.op = "customize", !.encryptor = encryptor,
                         !.before = mem[encryptor], !.cfg = cfg,
                         !.ret = out.ret, !.custom_set = out.custom_set,
                         !.custom = out.custom, !.allocd = out.allocd,
                         !.freed = out.freed, !.bad_free = out.bad_free]
    /\ UNCHANGED <<rand_state, pc, reg, tcall, registered>>

Sizing(encryptor) ==
    /\ Returned
    /\ mem[encryptor].num_calls < MaxCalls
    /\ LET out == rotate_sizing(mem, encryptor)
       IN  /\ mem' = out.mem
           /\ call' = [NoCall EXCEPT
                         !.op = "sizing", !.encryptor = encryptor,
                         !.before = mem[encryptor], !.ret = out.ret,
                         !.expansion_constant = out.expansion_constant]
    /\ UNCHANGED <<rand_state, pc, reg, tcall, registered>>

Terminate(encryptor) ==
    /\ Returned
    /\ LET out == rotate_terminate(mem, encryptor)
       IN  /\ mem' = out.mem
           /\ call' = [NoCall EXCEPT
                         !.op = "terminate", !.encryptor = encryptor,
                         !.before = mem[encryptor], !.ret = 0,
                         !.freed = out.freed, !.bad_free = out.bad_free]
    /\ registered' = (registered /\ encryptor # GlobalAddr)
    /\ UNCHANGED <<rand_state, pc, reg, tcall>>

\* The capacities a caller tries around the size `need`.
Capacities(need) == {n \in (need - MaxSlack)..(need + MaxSlack) : n >= 0}

Buffer(n, fill) == [i \in 1..n |-> fill]

CryptCall(op, encryptor, src_null, src, dst_len, out) ==
    [NoCall EXCEPT
       !.op = op, !.encryptor = encryptor, !.before = mem[encryptor],
       !.ret = out.ret, !.src_null = src_null, !.src = src,
       !.src_len = Len(src), !.dst_len = dst_len,
       !.dst = out.dst, !.written = out.written,
       !.result_len = out.result_len, !.result_set = out.result_set]

Encrypt(encryptor, src_null, src, dst_len, fill, result0) ==
    /\ Returned
    /\ mem[encryptor].num_calls < MaxCalls
    /\ LET out == rotate_encrypt(mem, encryptor, src_null, src, Len(src),
                                 Buffer(dst_len, fill), dst_len, result0, rand_state)
       IN  /\ mem' = out.mem
           /\ rand_state' = out.rand
           /\ call' = CryptCall("encrypt", encryptor, src_null, src, dst_len, out)
    /\ UNCHANGED <<pc, reg, tcall, registered>>

\* Records a caller may hand to decrypt that no encrypt call produced:
\* shorter than the header, or a zero header before any body.
ShortRecords == {Buffer(n, 0) : n \in {0, 1, CHKSUM_LEN + IV_LEN - 1}}
Records == ShortRecords \cup {Buffer(CHKSUM_LEN + IV_LEN, 0) \o b : b \in Plaintexts}

\* The bytes found behind a record in memory.
Beyond == {Buffer(MaxSlack, c) : c \in {0, 97}}

Decrypt(encryptor, src_null, src, beyond, dst_len, fill, result0) ==
    /\ Returned
    /\ mem[encryptor].num_calls < MaxCalls
    /\ LET out == rotate_decrypt(mem, encryptor, src_null, src \o beyond, Len(src),
                                 Buffer(dst_len, fill), dst_len, result0, rand_state)
       IN  /\ mem' = out.mem
           /\ rand_state' = out.rand
           /\ call' = CryptCall("decrypt", encryptor, src_null, src, dst_len, out)
    /\ UNCHANGED <<pc, reg, tcall, registered>>

\* Decrypt the record the preceding successful encrypt call on the same
\* instance produced (the first result_len bytes of its destination).
DecryptProduced(encryptor, beyond, dst_len, fill, result0) ==
    /\ mem[encryptor].num_calls < MaxCalls
    /\ call.op = "encrypt" /\ call.encryptor = encryptor
    /\ call.ret = 0 /\ ~call.src_null
    /\ LET src == SubSeq(call.dst, 1, call.result_len)
           out == rotate_decrypt(mem, encryptor, FALSE, src \o beyond, Len(src),
                                 Buffer(dst_len, fill), dst_len, result0, rand_state)
       IN  /\ dst_len \in Capacities(Len(src) - CHKSUM_LEN - IV_LEN)
           /\ mem' = out.mem
           /\ rand_state' = out.rand
           /\ call' = [CryptCall("decrypt", encryptor, FALSE, src, dst_len, out)
                         EXCEPT !.has_plain = TRUE, !.plain = call.src]
    /\ UNCHANGED <<pc, reg, tcall, registered>>

\* The keyid item's content before config_get: read only when the
\* configuration has no keyid.
KeyidBefore(cfg) ==
    IF cfg.keyid.present THEN {[str |-> "", len |-> 0]} ELSE IndeterminateItems

\* add_my_encryptors(connection): the extension entry point, run at each
\* wiredtiger_open. It sets the callbacks and zeroes the call count.
add_my_encryptors(m) == [m EXCEPT ![GlobalAddr].num_calls = 0]

AddMyEncryptors ==
    /\ Returned
    /\ ~registered
    /\ mem' = add_my_encryptors(mem)
    /\ registered' = TRUE
    /\ call' = [NoCall EXCEPT !.op = "add_my_encryptors", !.encryptor = GlobalAddr,
                              !.before = mem[GlobalAddr]]
    /\ UNCHANGED <<rand_state, pc, reg, tcall>>

\* While a connection is open the engine customizes the registered template
\* and terminates instances; closing the connection terminates the template,
\* and the next wiredtiger_open registers it again.
NextLife ==
    \/ /\ Returned /\ registered
       /\ \E cfg \in Configs : \E k \in KeyidBefore(cfg) : Customize(GlobalAddr, cfg, k)
    \/ Returned /\ \E e \in Instances : Sizing(e)
    \/ Returned /\ \E e \in Instances : Terminate(e)
    \/ Returned /\ registered /\ Terminate(GlobalAddr)
    \/ AddMyEncryptors
    \/ Return

SpecLife == Init /\ [][NextLife]_vars

\* ------------------------------------------------ the template in service
\* The registered template is a WT_ENCRYPTOR like any other: the engine may
\* ask it for its sizing between the customize calls it makes on it, so the
\* template's call count moves while instances are created from it.
NextTemplate ==
    \/ /\ Returned
       /\ \E cfg \in Configs : \E k \in KeyidBefore(cfg) : Customize(GlobalAddr, cfg, k)
    \/ Returned /\ Sizing(GlobalAddr)
    \/ Returned /\ \E e \in Instances : Terminate(e)
    \/ Return

SpecTemplate == Init /\ [][NextTemplate]_vars

\* ------------------------------------------------- one instance, in service
\* The configurations rotate_customize accepts when memory is not short.
ValidConfigs ==
    {Config(Given(SYS_KEYID), Given(SYS_PW)),
     Config(Given(USER1_KEYID), Absent),
     Config(Given(USER2_KEYID), Absent)}

\* The memory once an instance has been customized from the registered
\* template, and the generator as srandom(getpid()) seeded it.
InitCrypt ==
    /\ \E cfg \in ValidConfigs :
         mem = rotate_customize(TemplateMem, GlobalAddr, cfg, [str |-> "", len |-> 0]).mem
    /\ rand_state \in 0..(RandPeriod - 1)
    /\ call = NoCall
    /\ pc = [t \in Threads |-> "idle"]
    /\ reg = [t \in Threads |-> 0]
    /\ tcall = [t \in Threads |-> NoThreadCall]
    /\ registered = TRUE

HeaderLen == CHKSUM_LEN + IV_LEN

\* The bytes a call reads behind the record when dst_len exceeds the body.
BeyondFor(src, n) ==
    IF Len(src) >= HeaderLen /\ n > Len(src) - HeaderLen
      THEN Beyond
      ELSE {Buffer(MaxSlack, 0)}

\* The capacities tried with a record: around the size of its body, and
\* for a record shorter than the header around 0 and around the header size.
RecordCapacities(src) ==
    IF Len(src) >= HeaderLen
      THEN Capacities(Len(src) - HeaderLen)
      ELSE Capacities(0) \cup Capacities(HeaderLen)

NextCrypt ==
    \/ Returned /\ \E e \in Instances : Sizing(e)
    \/ /\ Returned
       /\ \E e \in Instances, src \in Plaintexts, fill \in FillBytes, r \in ResultInit :
            \E n \in Capacities(Len(src) + HeaderLen) :
              Encrypt(e, FALSE, src, n, fill, r)
    \/ /\ Returned
       /\ \E e \in Instances, fill \in FillBytes, r \in ResultInit, n \in 0..MaxSlack :
            Encrypt(e, TRUE, <<>>, n, fill, r)
    \/ /\ Returned
       /\ \E e \in Instances, src \in Records, fill \in FillBytes, r \in ResultInit :
            \E n \in RecordCapacities(src) :
              \E b \in BeyondFor(src, n) :
                Decrypt(e, FALSE, src, b, n, fill, r)
    \/ /\ Returned
       /\ \E e \in Instances, fill \in FillBytes, r \in ResultInit, n \in 0..MaxSlack :
            Decrypt(e, TRUE, <<>>, Buffer(MaxSlack, 0), n, fill, r)
    \/ /\ call.op = "encrypt" /\ call.ret = 0 /\ ~call.src_null
       /\ \E fill \in FillBytes, r \in ResultInit :
            \E n \in Capacities(call.result_len - HeaderLen) :
              \E b \in BeyondFor(call.dst, n) :
                DecryptProduced(call.encryptor, b, n, fill, r)
    \/ Return

SpecCrypt == InitCrypt /\ [][NextCrypt]_vars

\* ------------------------------------- one instance, called from threads
\* Sessions sharing the instance call encrypt and decrypt at the same time.
\* ++my_crypto->num_calls is a plain load and store of the shared counter;
\* the rest of a call works on the caller's own buffers.
TheInstance == CHOOSE a \in Addr : IsCrypto(mem, a)

\* The calls a thread makes: [op, src, dst_len], each with the exact capacity.
ThreadCalls ==
    {[op |-> "encrypt", src |-> <<b>>, dst_len |-> 1 + HeaderLen] : b \in {90, 97}}
      \cup {[op |-> "decrypt", src |-> Buffer(HeaderLen, 0) \o <<97>>, dst_len |-> 1]}

\* The thread enters rotate_encrypt or rotate_decrypt.
TEnter(t, c) ==
    /\ pc[t] = "idle"
    /\ pc' = [pc EXCEPT ![t] = "load"]
    /\ tcall' = [tcall EXCEPT ![t] =
                   [NoThreadCall EXCEPT !.op = c.op, !.src = c.src, !.dst_len = c.dst_len]]
    /\ UNCHANGED <<mem, rand_state, call, reg, registered>>

\* ++my_crypto->num_calls, the load
TLoad(t) ==
    /\ pc[t] = "load"
    /\ reg' = [reg EXCEPT ![t] = mem[TheInstance].num_calls]
    /\ pc' = [pc EXCEPT ![t] = "store"]
    /\ UNCHANGED <<mem, rand_state, call, tcall, registered>>

\* ++my_crypto->num_calls, the store
TStore(t) ==
    /\ pc[t] = "store"
    /\ mem' = [mem EXCEPT ![TheInstance].num_calls = reg[t] + 1]
    /\ pc' = [pc EXCEPT ![t] = "body"]
    /\ UNCHANGED <<rand_state, call, reg, tcall, registered>>

\* The rest of the call, to its return.
TBody(t) ==
    /\ pc[t] = "body"
    /\ LET c == tcall[t]
           out == IF c.op = "encrypt"
                    THEN encrypt_body(mem, TheInstance, FALSE, c.src, Len(c.src),
                                      Buffer(c.dst_len, 0), c.dst_len, 0, rand_state)
                    ELSE decrypt_body(mem, TheInstance, FALSE, c.src, Len(c.src),
                                      Buffer(c.dst_len, 0), c.dst_len, 0, rand_state)
       IN  /\ tcall' = [tcall EXCEPT ![t] =
                          [c EXCEPT !.ret = out.ret, !.dst = out.dst,
                                    !.result_len = out.result_len]]
           /\ rand_state' = out.rand
    /\ pc' = [pc EXCEPT ![t] = "done"]
    /\ UNCHANGED <<mem, call, reg, registered>>

NextConc ==
    \/ \E t \in Threads, c \in ThreadCalls : TEnter(t, c)
    \/ \E t \in Threads : TLoad(t)
    \/ \E t \in Threads : TStore(t)
    \/ \E t \in Threads : TBody(t)

SpecConc == InitCrypt /\ [][NextConc]_vars

\* ------------------------------------------------- every byte, one by one
\* Every value a uint8_t takes.
AllBytes == 0..255

\* The instance encrypts each byte value as a one-byte plaintext, and the
\* plaintexts of Plaintexts, and decrypts each byte value as the body of a
\* one-byte record, always with the exact capacity.
NextBytes ==
    \/ /\ Returned
       /\ \E e \in Instances, src \in {<<b>> : b \in AllBytes} \cup Plaintexts :
            Encrypt(e, FALSE, src, Len(src) + HeaderLen, 0, 0)
    \/ /\ Returned
       /\ \E e \in Instances, b \in AllBytes :
            Decrypt(e, FALSE, Buffer(HeaderLen, 0) \o <<b>>, Buffer(MaxSlack, 0), 1, 0, 0)
    \/ Return

SpecBytes == InitCrypt /\ [][NextBytes]_vars

\* ------------------------------------------ instances in service, and more
\* While instances serve sizing, encrypt and decrypt calls (here the calls
\* of ThreadCalls, one at a time) the engine goes on customizing the template
\* for further configurations.
NextService ==
    \/ Returned /\ \E e \in Instances : Sizing(e)
    \/ /\ Returned
       /\ \E e \in Instances, c \in ThreadCalls :
            /\ c.op = "encrypt"
            /\ Encrypt(e, FALSE, c.src, c.dst_len, 0, 0)
    \/ /\ Returned
       /\ \E e \in Instances, c \in ThreadCalls :
            /\ c.op = "decrypt"
            /\ Decrypt(e, FALSE, c.src, Buffer(MaxSlack, 0), c.dst_len, 0, 0)
    \/ /\ Returned
       /\ \E cfg \in Configs : \E k \in KeyidBefore(cfg) : Customize(GlobalAddr, cfg, k)
    \/ Return

SpecService == InitCrypt /\ [][NextService]_vars

\* ================================================================ properties
Range(f) == {f[i] : i \in DOMAIN f}

CustomizeReturned == call.op = "customize"

\* rotate_customize returns errno only after calloc or malloc returned NULL,
\* which sets it to ENOMEM: a call that returns anything else made all its
\* allocations.
AllocFailed == CustomizeReturned /\ call.ret = ENOMEM

\* The call handed back an instance carrying rot_N = n.
HandedBack(n) ==
    /\ call.ret = 0
    /\ call.custom_set
    /\ IsCrypto(mem, call.custom)
    /\ mem[call.custom].rot_N = n

\* No instance: nothing was stored through customp.
NoInstance == ~call.custom_set

\* The destination buffer and *result_lenp are as the caller left them.
NothingWritten ==
    /\ call.written = {}
    /\ ~call.result_set
    /\ \A i \in 1..Len(call.dst) : call.dst[i] \in FillBytes

\* C1 (SpecCrypt). Round trip: a plaintext x encrypted on an instance into a
\* destination of len(x) + 20 bytes and the produced record decrypted on
\* the same instance into a destination of len(record) - 20 bytes comes
\* back as exactly x, for each of the parameters 13, 4 and 19.
C1_RoundTrip ==
    (/\ call.op = "decrypt"
     /\ call.has_plain
     /\ call.src_len = Len(call.plain) + HeaderLen
     /\ call.dst_len = call.src_len - HeaderLen)
    => /\ call.ret = 0
       /\ call.result_set
       /\ call.result_len = Len(call.plain)
       /\ SubSeq(call.dst, 1, call.result_len) = call.plain

\* A plaintext of an upper-case letter that wraps past 'Z' and a lower-case
\* one has made the round trip under rot_N = 19.
C1_Witness ==
    /\ call.op = "decrypt"
    /\ call.has_plain
    /\ call.plain = <<90, 97>>
    /\ call.src_len = Len(call.plain) + HeaderLen
    /\ call.dst_len = call.src_len - HeaderLen
    /\ call.before.rot_N = 19
    /\ call.ret = 0

\* C2 (SpecLife). Key policy, success cases: when its allocations succeed,
\* customize with keyid "system" and the system password hands back an
\* instance with parameter 13; with keyid user1, an instance with parameter
\* 4 and with keyid user2 one with parameter 19, whether or not a secret is
\* given.
C2_KeyPolicySuccess ==
    (CustomizeReturned /\ ~AllocFailed)
    => /\ (call.cfg.keyid = Given(SYS_KEYID) /\ call.cfg.secretkey = Given(SYS_PW))
            => HandedBack(13)
       /\ call.cfg.keyid = Given(USER1_KEYID) => HandedBack(4)
       /\ call.cfg.keyid = Given(USER2_KEYID) => HandedBack(19)

\* user1 customized although a secret came with it.
C2_Witness ==
    /\ CustomizeReturned
    /\ call.cfg.keyid = Given(USER1_KEYID)
    /\ call.cfg.secretkey = Given(SYS_PW)
    /\ HandedBack(4)

\* C3 (SpecLife). With keyid "system" and a secret that is absent, empty or
\* not the system password, customize (its allocations succeeding) returns
\* EPERM and stores nothing through customp.
C3_SystemNeedsPassword ==
    (/\ CustomizeReturned /\ ~AllocFailed
     /\ call.cfg.keyid = Given(SYS_KEYID)
     /\ call.cfg.secretkey # Given(SYS_PW))
    => call.ret = EPERM /\ NoInstance

\* The system keyid was refused for a secret that only starts with the
\* password.
C3_Witness ==
    /\ CustomizeReturned
    /\ call.cfg.keyid = Given(SYS_KEYID)
    /\ call.cfg.secretkey = Given(SYS_PW \o "1")
    /\ call.ret = EPERM
    /\ NoInstance

\* C4 (SpecLife). With a keyid that is absent, empty or none of system,
\* user1, user2, customize (its allocations succeeding) returns EINVAL and
\* stores nothing through customp, whatever the secret.
C4_UnknownKeyidInvalid ==
    (/\ CustomizeReturned /\ ~AllocFailed
     /\ call.cfg.keyid \in {Absent, Given(""), Given(USERBAD_KEYID)})
    => call.ret = EINVAL /\ NoInstance

\* C5 (SpecCrypt). Length law: a successful encrypt of x into a destination
\* of at least len(x) + 20 bytes reports exactly len(x) + 4 + 16 bytes.
C5_EncryptLength ==
    (/\ call.op = "encrypt" /\ ~call.src_null /\ call.ret = 0
     /\ call.dst_len >= call.src_len + HeaderLen)
    => /\ call.result_set
       /\ call.result_len = call.src_len + CHKSUM_LEN + IV_LEN

\* C6 (SpecCrypt). Capacity: encrypt into a destination smaller than
\* len(source) + 20, and decrypt of a record of at least 20 bytes into a
\* destination smaller than len(record) - 20, return ENOMEM and store
\* nothing into the destination or the result length.
C6_Capacity ==
    /\ (/\ call.op = "encrypt" /\ ~call.src_null
        /\ call.dst_len < call.src_len + HeaderLen)
       => call.ret = ENOMEM /\ NothingWritten
    /\ (/\ call.op = "decrypt" /\ ~call.src_null
        /\ call.src_len >= HeaderLen
        /\ call.dst_len < call.src_len - HeaderLen)
       => call.ret = ENOMEM /\ NothingWritten

\* A decrypt whose destination was one byte short of the body was refused.
C6_Witness ==
    /\ call.op = "decrypt" /\ ~call.src_null
    /\ call.src_len > HeaderLen
    /\ call.dst_len = call.src_len - HeaderLen - 1
    /\ call.ret = ENOMEM
    /\ NothingWritten

\* C7 (SpecCrypt). Zero-length input: encrypt and decrypt of an empty input
\* (source absent, or present with length 0) succeed, report no bytes
\* produced and write no header into the destination.
C7_EmptyInput ==
    (/\ call.op \in {"encrypt", "decrypt"}
     /\ (call.src_null \/ call.src_len = 0))
    => /\ call.ret = 0
       /\ call.written = {}
       /\ call.result_set => call.result_len = 0

\* C8 (SpecConc). No lost increments: once every concurrent call has
\* returned, num_calls is its value after customize plus the number of
\* calls made.
C8_NoLostIncrement ==
    (\A t \in Threads : pc[t] \in {"idle", "done"})
    => mem[TheInstance].num_calls
         = TemplateMem[GlobalAddr].num_calls + 1
             + Cardinality({t \in Threads : pc[t] = "done"})

\* C9 (SpecLife). No leak on failure: when customize returns an error,
\* every cell it allocated during the call has been freed.
C9_NoLeakOnFailure ==
    (CustomizeReturned /\ call.ret # 0)
    => \A a \in Range(call.allocd) : mem[a].kind = "free"

\* What an instance owns: its structure, its keyid and its password.
Owned(encryptor, my_crypto) ==
    {encryptor} \cup ({my_crypto.keyid, my_crypto.password} \ {NULL})

\* C10 (SpecLife). Terminating an instance frees its keyid, its password
\* and its structure, each exactly once: every one of them is freed, none
\* twice, and nothing else is.
C10_TerminateFreesOnce ==
    (call.op = "terminate" /\ call.encryptor # GlobalAddr)
    => /\ Range(call.freed) = Owned(call.encryptor, call.before)
       /\ Len(call.freed) = Cardinality(Owned(call.encryptor, call.before))
       /\ ~call.bad_free
       /\ \A a \in Owned(call.encryptor, call.before) : mem[a].kind = "free"

\* An instance holding both a keyid and a password was terminated.
C10_Witness ==
    /\ call.op = "terminate" /\ call.encryptor # GlobalAddr
    /\ call.before.keyid # NULL /\ call.before.password # NULL
    /\ Len(call.freed) = 3


\* C11 (SpecLife). The template is never released: whatever calls have been
\* made, terminate on an instance or on the template itself included,
\* my_crypto_global is still a MY_CRYPTO with no keyid, no password and no
\* rot_N of its own, which is what customize copies from, and no terminate
\* call has passed it to free.
C11_TemplateNeverReleased ==
    /\ IsCrypto(mem, GlobalAddr)
    /\ my_crypto_global.keyid = NULL
    /\ my_crypto_global.password = NULL
    /\ my_crypto_global.rot_N = 0
    /\ call.op = "terminate" => GlobalAddr \notin Range(call.freed)

\* The template itself has been terminated, while an instance customized
\* from it is still in service.
C11_Witness ==
    /\ call.op = "terminate"
    /\ call.encryptor = GlobalAddr
    /\ Instances # {}
    /\ IsCrypto(mem, GlobalAddr)


\* C12 (SpecCrypt). Decrypt reports the bytes produced: a successful decrypt
\* of a record of L >= 20 bytes into a destination of at least L - 20 bytes
\* stores and reports exactly L - 20 bytes, however large the destination.
C12_DecryptLength ==
    (/\ call.op = "decrypt" /\ ~call.src_null /\ call.ret = 0
     /\ call.src_len >= HeaderLen
     /\ call.dst_len >= call.src_len - HeaderLen)
    => /\ call.result_set
       /\ call.result_len = call.src_len - HeaderLen
       /\ call.written = 0..(call.src_len - HeaderLen - 1)


\* C13 (SpecCrypt). Call count: in a sequential run no step lowers the
\* num_calls of an encryptor, and every encrypt, decrypt and sizing call
\* raises the num_calls of the instance it is made on by exactly one,
\* whether it returns 0, returns ENOMEM or returns early for src == NULL.
C13_CallCounted ==
    [][/\ \A a \in Addr \cup {GlobalAddr} :
            (IsCrypto(mem, a) /\ IsCrypto(mem', a))
              => mem'[a].num_calls >= mem[a].num_calls
       /\ call'.op \in {"encrypt", "decrypt", "sizing"}
            => mem'[call'.encryptor].num_calls
                 = mem[call'.encryptor].num_calls + 1]_vars

\* An encrypt call that took the src == NULL return was counted.
C13_Witness ==
    /\ call.op = "encrypt"
    /\ call.src_null
    /\ call.ret = 0
    /\ mem[call.encryptor].num_calls = call.before.num_calls + 1


\* C14 (SpecTemplate). Seeding: when customize succeeds, the num_calls of
\* the instance it hands back is the num_calls the template had when the
\* call was made, plus one.
C14_CountSeeded ==
    (CustomizeReturned /\ call.ret = 0)
    => /\ call.custom_set
       /\ IsCrypto(mem, call.custom)
       /\ mem[call.custom].num_calls = call.before.num_calls + 1

\* An instance was customized from a template that had served two calls.
C14_Witness ==
    /\ CustomizeReturned /\ call.ret = 0
    /\ call.before.num_calls = 2
    /\ mem[call.custom].num_calls = 3


\* C15 (SpecService). The parameter is fixed: no sizing, encrypt, decrypt or
\* customize call, on whichever encryptor it is made, changes the rot_N of
\* an instance customize has returned.
C15_ParameterFixed ==
    [][\A a \in Addr :
         (a \in Instances /\ IsCrypto(mem', a)) => mem'[a].rot_N = mem[a].rot_N]_vars

\* A second instance has been customized next to one in service, which has
\* served calls of its own and still has its rot_N.
C15_Witness ==
    /\ CustomizeReturned /\ call.ret = 0
    /\ \E a \in Instances :
         /\ a # call.custom
         /\ mem[a].num_calls > 1
         /\ mem[a].rot_N \in {4, 19}


\* C16 (SpecTemplate). Customize only reads the template: when the call
\* returns, with success or with an error, the encryptor it was made on has
\* the rot_N, num_calls, keyid and password it had before the call.
C16_TemplateOnlyRead ==
    CustomizeReturned => mem[call.encryptor] = call.before

\* A customize call failed with EINVAL on a template that had served a
\* call, while an instance customized from it exists.
C16_Witness ==
    /\ CustomizeReturned
    /\ call.ret = EINVAL
    /\ call.before.num_calls = 1
    /\ mem[call.encryptor].num_calls = 1
    /\ Instances # {}


\* What a call of ThreadCalls yields when run alone on an instance with
\* rot_N = n: the rotated body for encrypt, the rotated-back body for decrypt.
AloneBody(c, n) ==
    IF c.op = "encrypt"
      THEN do_rotate(c.src, Len(c.src), n)
      ELSE do_rotate(SubSeq(c.src, HeaderLen + 1, Len(c.src)),
                     Len(c.src) - HeaderLen, 26 - n)

\* The body a finished call left in its destination: behind the header for
\* encrypt, from the start for decrypt.
WrittenBody(c) ==
    IF c.op = "encrypt"
      THEN SubSeq(c.dst, HeaderLen + 1, HeaderLen + Len(c.src))
      ELSE SubSeq(c.dst, 1, Len(c.src) - HeaderLen)

\* C17 (SpecConc). Independent correctness: in every interleaving of
\* concurrent encrypt and decrypt calls on one instance, each finished call
\* has succeeded and the body in its destination is what the call yields
\* when run alone on its input with the instance's rot_N.
C17_IndependentlyCorrect ==
    \A t \in Threads :
      pc[t] = "done"
        => /\ tcall[t].ret = 0
           /\ WrittenBody(tcall[t]) = AloneBody(tcall[t], mem[TheInstance].rot_N)

\* An encrypt and a decrypt call have both finished after racing on the
\* call count (one increment was lost).
C17_Witness ==
    /\ \A t \in Threads : pc[t] = "done"
    /\ \E t \in Threads : tcall[t].op = "encrypt"
    /\ \E t \in Threads : tcall[t].op = "decrypt"
    /\ mem[TheInstance].num_calls < 1 + MaxThreads


\* The text a successful call took in and the text it left: for encrypt
\* the source and the destination behind the header, for decrypt the record
\* behind the header and the destination.
TextIn ==
    IF call.op = "encrypt"
      THEN call.src
      ELSE SubSeq(call.src, HeaderLen + 1, call.src_len)
TextOut ==
    IF call.op = "encrypt"
      THEN SubSeq(call.dst, HeaderLen + 1, HeaderLen + call.src_len)
      ELSE SubSeq(call.dst, 1, call.src_len - HeaderLen)

\* C18 (SpecBytes). Case/charset law: encrypt and decrypt, under rot_N 13,
\* 4 and 19, keep the length of the text, leave every byte that is not an
\* ASCII letter as it is, and turn a lower-case letter into a lower-case
\* letter and an upper-case letter into an upper-case letter.
C18_CaseCharset ==
    (/\ call.op \in {"encrypt", "decrypt"} /\ ~call.src_null /\ call.ret = 0
     /\ call.src_len >= (IF call.op = "decrypt" THEN HeaderLen ELSE 0))
    => /\ Len(TextOut) = Len(TextIn)
       /\ \A i \in 1..Len(TextIn) :
            /\ TextIn[i] \in 97..122 => TextOut[i] \in 97..122
            /\ TextIn[i] \in 65..90 => TextOut[i] \in 65..90
            /\ TextIn[i] \notin (65..90) \cup (97..122) => TextOut[i] = TextIn[i]

\* The byte 'Z' was decrypted under rot_N = 4 and came out an upper-case
\* letter other than 'Z'.
C18_Witness ==
    /\ call.op = "decrypt" /\ call.ret = 0
    /\ call.before.rot_N = 4
    /\ TextIn = <<90>>
    /\ TextOut[1] \in 65..89


\* C19 (SpecCrypt). Decrypt stays inside the record: for a record of
\* L >= 20 bytes and a destination capacity the capacity test accepts, every
\* source offset the call reads lies in [20, L).
C19_ReadsInsideRecord ==
    (/\ call.op = "decrypt" /\ ~call.src_null /\ call.ret = 0
     /\ call.src_len >= HeaderLen)
    => DecryptReads(call.dst_len) \subseteq HeaderLen..(call.src_len - 1)


\* C20 (SpecCrypt). A record shorter than the header is never decoded:
\* decrypt of a present record of fewer than 20 bytes returns ENOMEM and
\* stores nothing into the destination or the result length, whether the
\* capacity is 0 or exceeds the header size (src_len - 20 wraps in size_t).
C20_ShortRecordRefused ==
    (/\ call.op = "decrypt" /\ ~call.src_null
     /\ call.src_len < HeaderLen)
    => call.ret = ENOMEM /\ NothingWritten

\* A 19-byte record was refused although the destination had room for more
\* than a header.
C20_Witness ==
    /\ call.op = "decrypt" /\ ~call.src_null
    /\ call.src_len = HeaderLen - 1
    /\ call.dst_len > HeaderLen
    /\ call.ret = ENOMEM
    /\ NothingWritten

====
